---------------------------- MODULE Spec2Model ----------------------------
(***************************************************************************)
(* Model of generate_midi_manifest.py: walk assets/midi, keep the names    *)
(* ending in .mid/.midi, normalise and sort the relative paths, dump them  *)
(* as JSON to assets/midi_manifest.json and print the count.               *)
(*                                                                         *)
(* Strings are sequences of code points, so that lower(), endswith(),      *)
(* replace(), the sort order and the JSON text are computed, not assumed.  *)
(***************************************************************************)
EXTENDS Integers, Sequences, FiniteSets, TLC

\* ------------------------------------------------------------------ bounds
\* at most this many regular files exist beneath the root
MaxFiles == 2
\* bytes handed to the operating system by one write call
BufSize == 16
\* at most this many files are deleted by the environment during a run
MaxRemovals == 1

\* ------------------------------------------------------- program constants
Slash == 47
Backslash == 92
Quote == 34

\* "assets/midi"
base == <<97, 115, 115, 101, 116, 115, 47, 109, 105, 100, 105>>
\* ".mid" and ".midi"
ExtMid == <<46, 109, 105, 100>>
ExtMidi == <<46, 109, 105, 100, 105>>

\* the two runs (or the two concurrent instances) of the script
Proc == {1, 2}

\* ------------------------------------------------------------ string helpers
Min(a, b) == IF a < b THEN a ELSE b

\* str.lower() on the code points the model uses (ASCII)
LowerChar(c) == IF c >= 65 /\ c <= 90 THEN c + 32 ELSE c

Lower(s) == [i \in 1..Len(s) |-> LowerChar(s[i])]

EndsWith(s, suf) ==
    /\ Len(s) >= Len(suf)
    /\ SubSeq(s, Len(s) - Len(suf) + 1, Len(s)) = suf

\* f.lower().endswith(('.mid', '.midi'))
Matches(f) == EndsWith(Lower(f), ExtMid) \/ EndsWith(Lower(f), ExtMidi)

\* Python's str ordering: lexicographic on code points
StrLess(a, b) ==
    \E i \in 1..(Min(Len(a), Len(b)) + 1) :
        /\ \A j \in 1..(i - 1) : a[j] = b[j]
        /\ \/ i <= Len(a) /\ i <= Len(b) /\ a[i] < b[i]
           \/ i = Len(a) + 1 /\ i <= Len(b)

\* list.sort() of a list of str
SortStrings(l) == SortSeq(l, StrLess)

\* s.replace(old, new) for one-character old and new
Replace(s, old, new) == [i \in 1..Len(s) |-> IF s[i] = old THEN new ELSE s[i]]

RECURSIVE Split(_, _)
\* s.split(sep) for a one-character sep
Split(s, sep) ==
    IF \A i \in 1..Len(s) : s[i] # sep
    THEN <<s>>
    ELSE LET k == CHOOSE i \in 1..Len(s) :
                      s[i] = sep /\ \A j \in 1..(i - 1) : s[j] # sep
         IN  <<SubSeq(s, 1, k - 1)>> \o Split(SubSeq(s, k + 1, Len(s)), sep)

RECURSIVE JoinWith(_, _)
\* sep.join(parts)
JoinWith(sep, parts) ==
    IF parts = <<>> THEN <<>>
    ELSE IF Len(parts) = 1 THEN parts[1]
    ELSE parts[1] \o <<sep>> \o JoinWith(sep, Tail(parts))

Reverse(l) == [i \in 1..Len(l) |-> l[Len(l) + 1 - i]]

Range(l) == {l[i] : i \in 1..Len(l)}

\* every order in which the members of S can be listed
Orders(S) ==
    {l \in [1..Cardinality(S) -> S] :
        \A i, j \in 1..Cardinality(S) : i # j => l[i] # l[j]}

\* ------------------------------------------------------------ os.path
\* os.path.join(a, b) on a host whose separator is sep
Join(sep, a, b) == a \o <<sep>> \o b

\* os.path.normpath: on a backslash host the alternative separator "/"
\* becomes the separator
NormPath(sep, p) == IF sep = Backslash THEN Replace(p, Slash, Backslash) ELSE p

\* the components of os.path.relpath(p, start): those of p after start's
RelComponents(sep, p, start) ==
    LET pparts == Split(NormPath(sep, p), sep)
        sparts == Split(NormPath(sep, start), sep)
    IN  SubSeq(pparts, Len(sparts) + 1, Len(pparts))

\* os.path.relpath(p, start) for p beneath start
RelPath(sep, p, start) == JoinWith(sep, RelComponents(sep, p, start))

\* the separator left as the host gives it
CanonSkipped(sep, rel) == rel

\* rel.replace(os.sep, '/')
Canon(sep, rel) == Replace(rel, sep, Slash)

\* ------------------------------------------------------------ json.dump
RECURSIVE Escape(_)
\* the body of a JSON string: quote and backslash are escaped
Escape(s) ==
    IF s = <<>> THEN <<>>
    ELSE (IF Head(s) = Quote \/ Head(s) = Backslash
          THEN <<Backslash, Head(s)>> ELSE <<Head(s)>>) \o Escape(Tail(s))

RECURSIVE DumpItems(_)
DumpItems(ps) ==
    IF Len(ps) = 1 THEN <<Quote>> \o Escape(ps[1]) \o <<Quote>>
    ELSE <<Quote>> \o Escape(ps[1]) \o <<Quote>> \o <<44, 10, 32, 32>>
         \o DumpItems(Tail(ps))

\* json.dumps(ps, ensure_ascii=False, indent=2)
Dumps(ps) ==
    IF ps = <<>> THEN <<91, 93>>
    ELSE <<91, 10, 32, 32>> \o DumpItems(ps) \o <<10, 93>>

\* bytes of a file after writing bs at offset off (a gap reads as NUL)
WriteAt(data, off, bs) ==
    LET n == IF Len(data) > off + Len(bs) THEN Len(data) ELSE off + Len(bs)
    IN  [i \in 1..n |->
            IF i > off /\ i <= off + Len(bs) THEN bs[i - off]
            ELSE IF i <= Len(data) THEN data[i] ELSE 0]

\* ------------------------------------------------------------ file system
\* directory names "s", "z", "d.mid"
NameS == <<115>>
NameZ == <<122>>
NameDMid == <<100, 46, 109, 105, 100>>

RootDir == <<>>
DirS == <<NameS>>
DirSZ == <<NameS, NameZ>>
DirDMid == <<NameDMid>>

\* the directories beneath (and including) the root, as component lists
AllDirs == {RootDir, DirS, DirSZ, DirDMid}

\* the regular files that may exist:
\*   t.mid  xmid  e.midX  s/B.MIDI  s/c.txt  s/z/g.mid  d.mid/f.midi
PortableFiles ==
    { [dir |-> RootDir, name |-> <<116, 46, 109, 105, 100>>],
      [dir |-> RootDir, name |-> <<120, 109, 105, 100>>],
      [dir |-> RootDir, name |-> <<101, 46, 109, 105, 100, 88>>],
      [dir |-> DirS,    name |-> <<66, 46, 77, 73, 68, 73>>],
      [dir |-> DirS,    name |-> <<99, 46, 116, 120, 116>>],
      [dir |-> DirSZ,   name |-> <<103, 46, 109, 105, 100>>],
      [dir |-> DirDMid, name |-> <<102, 46, 109, 105, 100, 105>>] }

\* s/h\.mid : a backslash is an ordinary name character where the
\* separator is "/", and cannot occur in a name where it is the separator
SlashHostFiles == { [dir |-> DirS, name |-> <<104, 92, 46, 109, 105, 100>>] }

CandidateFiles(sep) ==
    IF sep = Slash THEN PortableFiles \cup SlashHostFiles ELSE PortableFiles

\* a manifest left behind by an earlier version of the tree: ["o.mid"]
StaleManifest == Dumps(<< <<111, 46, 109, 105, 100>> >>)

\* ------------------------------------------------------------------ state
VARIABLES
    sep,        \* os.sep of the host: Slash or Backslash
    rootKind,   \* what assets/midi is: "dir", "file" or "missing"
    denied,     \* directories that exist but cannot be listed
    files,      \* the regular files beneath the root
    launch,     \* how the two runs are started: "sequential" or "concurrent"
    fault,      \* what goes wrong with the output path: "none", "open", "write"
    outFile,    \* assets/midi_manifest.json: [exists, data]
    pc,         \* per run: the statement it is at
    stack,      \* per run: os.walk's stack of directories still to list
    paths,      \* per run: the list  paths
    pending,    \* per run: text handed to fh and not yet written out
    off,        \* per run: file offset of fh
    stdout,     \* per run: the counts printed, <<>> or <<N>>
    visited,    \* history, per run: directories listed, in order
    walkErr,    \* history, per run: a directory could not be listed
    ioErr,      \* history, per run: open or write raised
    closed,     \* history, per run: <<file content when fh was closed>>
    outFile0,   \* history: the output file before the first run
    overlap,    \* history: an instance opened fh while another had it open
    lastClosed, \* history: the instances that closed fh, in order
    removals    \* history: number of files deleted by the environment

envVars == <<sep, rootKind, denied, fault, launch, outFile0>>
procVars == <<pc, stack, paths, pending, off, stdout>>
histVars == <<visited, walkErr, ioErr, closed, overlap, lastClosed>>
vars == <<envVars, files, outFile, procVars, histVars, removals>>

Terminal == {"done", "failed"}

\* the process exit status: an uncaught exception exits with 1
ExitCode(p) == IF pc[p] = "failed" THEN 1 ELSE 0

\* names of the subdirectories of directory d
SubDirNames(d) ==
    {x[Len(x)] : x \in {y \in AllDirs :
                          Len(y) = Len(d) + 1 /\ SubSeq(y, 1, Len(d)) = d}}

\* names of the regular files in directory d
FileNames(d) == {f.name : f \in {g \in files : g.dir = d}}

\* the directory a path string of the walk denotes
DirOf(top) == RelComponents(sep, top, base)

\* os.scandir(top) succeeds
Listable(top) == rootKind = "dir" /\ DirOf(top) \notin denied

\* run p may take a step: run 2 of a sequential launch waits for run 1 to exit
Turn(p) == launch = "concurrent" \/ p = 1 \/ pc[1] \in Terminal

Tree ==
    /\ sep \in {Slash, Backslash}
    /\ rootKind \in {"dir", "file", "missing"}
    /\ denied \in {{}, {RootDir}, {DirS}}
    /\ files \in {F \in SUBSET CandidateFiles(sep) : Cardinality(F) <= MaxFiles}
    /\ rootKind # "dir" => files = {} /\ denied = {}
    /\ fault \in {"none", "open", "write"}
    /\ outFile \in {[exists |-> FALSE, data |-> <<>>],
                    [exists |-> TRUE, data |-> StaleManifest]}
    /\ outFile0 = outFile
    /\ pc = [p \in Proc |-> "walk"]
    /\ stack = [p \in Proc |-> <<base>>]
    /\ paths = [p \in Proc |-> <<>>]
    /\ pending = [p \in Proc |-> <<>>]
    /\ off = [p \in Proc |-> 0]
    /\ stdout = [p \in Proc |-> <<>>]
    /\ visited = [p \in Proc |-> <<>>]
    /\ walkErr = [p \in Proc |-> FALSE]
    /\ ioErr = [p \in Proc |-> FALSE]
    /\ closed = [p \in Proc |-> <<>>]
    /\ overlap = FALSE
    /\ lastClosed = <<>>
    /\ removals = 0

\* run 1, then run 2, against the same tree
Init == Tree /\ launch = "sequential"

\* two instances at once
InitConc == Tree /\ launch = "concurrent"

\* ------------------------------------------------------------------ the walk
\* dirs.sort()
SortDirs(dirs) == SortStrings(dirs)

\* files.sort()
SortFiles(fs) == SortStrings(fs)

\* os.walk, top-down: the subdirectories of top, taken from the list the
\* loop body was given, are listed next in that list's order
Descend(rest, top, dirs) ==
    rest \o Reverse([i \in 1..Len(dirs) |-> Join(sep, top, dirs[i])])

\* rel = os.path.relpath(os.path.join(root, f), base); rel.replace(os.sep, '/')
Entry(root, f) == Canon(sep, RelPath(sep, Join(sep, root, f), base))

\* the entries the inner loop appends for one directory
Collect(root, fs) ==
    LET hits == SelectSeq(fs, Matches)
    IN  [i \in 1..Len(hits) |-> Entry(root, hits[i])]

\* one iteration of  for root, dirs, files in os.walk(base)
WalkList(p) ==
    /\ Turn(p)
    /\ pc[p] = "walk"
    /\ stack[p] # <<>>
    /\ LET top == stack[p][Len(stack[p])]
           rest == SubSeq(stack[p], 1, Len(stack[p]) - 1)
       IN  /\ Listable(top)
           /\ \E dorder \in Orders(SubDirNames(DirOf(top))),
                 forder \in Orders(FileNames(DirOf(top))) :
                  /\ stack' = [stack EXCEPT ![p] =
                                  Descend(rest, top, SortDirs(dorder))]
                  /\ paths' = [paths EXCEPT ![p] =
                                  @ \o Collect(top, SortFiles(forder))]
           /\ visited' = [visited EXCEPT ![p] = Append(@, DirOf(top))]
    /\ UNCHANGED <<envVars, files, outFile, pc, pending, off, stdout,
                   walkErr, ioErr, closed, overlap, lastClosed, removals>>

\* os.walk with onerror=None: a directory that cannot be listed is dropped
WalkSkip(p) ==
    /\ Turn(p)
    /\ pc[p] = "walk"
    /\ stack[p] # <<>>
    /\ ~Listable(stack[p][Len(stack[p])])
    /\ stack' = [stack EXCEPT ![p] = SubSeq(@, 1, Len(@) - 1)]
    /\ walkErr' = [walkErr EXCEPT ![p] = TRUE]
    /\ UNCHANGED <<envVars, files, outFile, pc, paths, pending, off, stdout,
                   visited, ioErr, closed, overlap, lastClosed, removals>>

\* the final sort left out
SortPathsSkipped(ps) == ps

\* paths.sort()
SortPaths(ps) == SortStrings(ps)

\* the walk is exhausted: paths.sort()
WalkEnd(p) ==
    /\ Turn(p)
    /\ pc[p] = "walk"
    /\ stack[p] = <<>>
    /\ paths' = [paths EXCEPT ![p] = SortPaths(@)]
    /\ pc' = [pc EXCEPT ![p] = "open"]
    /\ UNCHANGED <<envVars, files, outFile, stack, pending, off, stdout,
                   histVars, removals>>

\* ------------------------------------------------------------------ output
\* the file opened without truncation (mode 'r+')
NotTruncated(f) == [exists |-> TRUE, data |-> f.data]

\* the file as open(..., 'w') leaves it: created or truncated
Truncated(f) == [exists |-> TRUE, data |-> <<>>]

\* with open('assets/midi_manifest.json', 'w', encoding='utf-8') as fh
Open(p) ==
    /\ Turn(p)
    /\ pc[p] = "open"
    /\ fault # "open"
    /\ outFile' = Truncated(outFile)
    /\ off' = [off EXCEPT ![p] = 0]
    /\ pc' = [pc EXCEPT ![p] = "dump"]
    /\ overlap' = (overlap \/ \E q \in Proc \ {p} : pc[q] \in {"dump", "flush"})
    /\ UNCHANGED <<envVars, files, stack, paths, pending, stdout,
                   visited, walkErr, ioErr, closed, lastClosed, removals>>

\* open raises OSError: the script dies with a traceback
OpenFail(p) ==
    /\ Turn(p)
    /\ pc[p] = "open"
    /\ fault = "open"
    /\ pc' = [pc EXCEPT ![p] = "failed"]
    /\ ioErr' = [ioErr EXCEPT ![p] = TRUE]
    /\ UNCHANGED <<envVars, files, outFile, stack, paths, pending, off, stdout,
                   visited, walkErr, closed, overlap, lastClosed, removals>>

\* json.dump(paths, fh, ensure_ascii=False, indent=2): the text goes to fh
Dump(p) ==
    /\ Turn(p)
    /\ pc[p] = "dump"
    /\ pending' = [pending EXCEPT ![p] = Dumps(paths[p])]
    /\ pc' = [pc EXCEPT ![p] = "flush"]
    /\ UNCHANGED <<envVars, files, outFile, stack, paths, off, stdout,
                   histVars, removals>>

\* fh's buffer is full: one write call at fh's offset
Flush(p) ==
    /\ Turn(p)
    /\ pc[p] = "flush"
    /\ fault # "write"
    /\ Len(pending[p]) > BufSize
    /\ outFile' = [outFile EXCEPT
                     !.data = WriteAt(@, off[p], SubSeq(pending[p], 1, BufSize))]
    /\ off' = [off EXCEPT ![p] = @ + BufSize]
    /\ pending' = [pending EXCEPT ![p] = SubSeq(@, BufSize + 1, Len(@))]
    /\ UNCHANGED <<envVars, files, pc, stack, paths, stdout,
                   histVars, removals>>

\* the write error caught and ignored: the script goes on to the summary
FlushFailSwallowed(p) ==
    /\ Turn(p)
    /\ pc[p] = "flush"
    /\ fault = "write"
    /\ pc' = [pc EXCEPT ![p] = "print"]
    /\ ioErr' = [ioErr EXCEPT ![p] = TRUE]
    /\ UNCHANGED <<envVars, files, outFile, stack, paths, pending, off, stdout,
                   visited, walkErr, closed, overlap, lastClosed, removals>>

\* a write call raises OSError (disk full): fh is closed by the with
\* statement and the script dies with a traceback
FlushFail(p) ==
    /\ Turn(p)
    /\ pc[p] = "flush"
    /\ fault = "write"
    /\ pc' = [pc EXCEPT ![p] = "failed"]
    /\ ioErr' = [ioErr EXCEPT ![p] = TRUE]
    /\ UNCHANGED <<envVars, files, outFile, stack, paths, pending, off, stdout,
                   visited, walkErr, closed, overlap, lastClosed, removals>>

\* leaving the with block: the rest of the buffer is written, fh is closed
Close(p) ==
    /\ Turn(p)
    /\ pc[p] = "flush"
    /\ fault # "write"
    /\ Len(pending[p]) <= BufSize
    /\ outFile' = [outFile EXCEPT !.data = WriteAt(@, off[p], pending[p])]
    /\ off' = [off EXCEPT ![p] = @ + Len(pending[p])]
    /\ pending' = [pending EXCEPT ![p] = <<>>]
    /\ closed' = [closed EXCEPT ![p] = <<outFile'.data>>]
    /\ lastClosed' = Append(lastClosed, p)
    /\ pc' = [pc EXCEPT ![p] = "print"]
    /\ UNCHANGED <<envVars, files, stack, paths, stdout,
                   visited, walkErr, ioErr, overlap, removals>>

\* the index of the last entry instead of the length
SummaryLastIndex(ps) == IF ps = <<>> THEN 0 ELSE Len(ps) - 1

\* the number in  print(f"Generated manifest with {len(paths)} MIDI files.")
Summary(ps) == Len(ps)

Report(p) ==
    /\ Turn(p)
    /\ pc[p] = "print"
    /\ stdout' = [stdout EXCEPT ![p] = Append(@, Summary(paths[p]))]
    /\ pc' = [pc EXCEPT ![p] = "done"]
    /\ UNCHANGED <<envVars, files, outFile, stack, paths, pending, off,
                   histVars, removals>>

\* ------------------------------------------------------------ environment
\* somebody deletes a file beneath the root while an instance is walking
FsRemove ==
    /\ removals < MaxRemovals
    /\ \E p \in Proc : pc[p] = "walk"
    /\ \E f \in files : files' = files \ {f}
    /\ removals' = removals + 1
    /\ UNCHANGED <<envVars, outFile, procVars, histVars>>

\* ------------------------------------------------------------ specifications
Step(p) ==
    \/ WalkList(p)
    \/ WalkSkip(p)
    \/ WalkEnd(p)
    \/ Open(p)
    \/ OpenFail(p)
    \/ Dump(p)
    \/ Flush(p)
    \/ FlushFail(p)
    \/ Close(p)
    \/ Report(p)

Next == \E p \in Proc : Step(p)

Spec == Init /\ [][Next]_vars

\* two instances at once, and a tree that changes under them
NextConc == (\E p \in Proc : Step(p)) \/ FsRemove

SpecConc == InitConc /\ [][NextConc]_vars

\* ------------------------------------------------------------ the manifest
\* what a reader of the manifest gets: the strings of the JSON array
RECURSIVE LoadsFrom(_, _, _, _, _)
LoadsFrom(d, i, inStr, cur, acc) ==
    IF i > Len(d) THEN acc
    ELSE IF ~inStr
         THEN LoadsFrom(d, i + 1, d[i] = Quote, <<>>, acc)
    ELSE IF d[i] = Backslash /\ i < Len(d)
         THEN LoadsFrom(d, i + 2, TRUE, Append(cur, d[i + 1]), acc)
    ELSE IF d[i] = Quote
         THEN LoadsFrom(d, i + 1, FALSE, <<>>, Append(acc, cur))
    ELSE LoadsFrom(d, i + 1, TRUE, Append(cur, d[i]), acc)

Loads(d) == LoadsFrom(d, 1, FALSE, <<>>, <<>>)

\* the array run p left in the output file when it closed it
Written(p) == Loads(closed[p][1])

\* the canonical relative path of a file: its components joined by "/"
CanonOf(f) == JoinWith(Slash, f.dir \o <<f.name>>)

\* the extension of a name: from its last dot on, empty without a dot
Extension(name) ==
    IF \A i \in 1..Len(name) : name[i] # 46 THEN <<>>
    ELSE LET k == CHOOSE i \in 1..Len(name) :
                      name[i] = 46 /\ \A j \in (i + 1)..Len(name) : name[j] # 46
         IN  SubSeq(name, k, Len(name))

IsMidiName(name) == Lower(Extension(name)) \in {ExtMid, ExtMidi}

\* every directory from the root down to f can be listed
Reachable(f) ==
    /\ rootKind = "dir"
    /\ \A k \in 0..Len(f.dir) : SubSeq(f.dir, 1, k) \notin denied

Count(l, x) == Cardinality({i \in 1..Len(l) : l[i] = x})

IsSorted(l) == \A i \in 1..(Len(l) - 1) : ~StrLess(l[i + 1], l[i])

\* the manifest as a function of the tree alone
ManifestOf ==
    LET S == {CanonOf(f) : f \in {g \in files : IsMidiName(g.name) /\ Reachable(g)}}
    IN  Dumps(SortStrings(CHOOSE l \in Orders(S) : TRUE))

\* "t.mid", "s/B.MIDI", "s/z/g.mid"
PathT == <<116, 46, 109, 105, 100>>
PathSB == <<115, 47, 66, 46, 77, 73, 68, 73>>
PathSZG == <<115, 47, 122, 47, 103, 46, 109, 105, 100>>

\* ------------------------------------------------------------ properties

\* C1: after a successful run, a file beneath the root is in the written
\* manifest if and only if the lowercased extension of its name is .mid or
\* .midi.
FilterCorrectness ==
    \A p \in Proc : pc[p] = "done" =>
        \A f \in files : (CanonOf(f) \in Range(Written(p))) <=> IsMidiName(f.name)

\* the same for the files the walk can get to
FilterCorrectnessListed ==
    \A p \in Proc : pc[p] = "done" =>
        \A f \in files :
            (CanonOf(f) \in Range(Written(p))) <=> (IsMidiName(f.name) /\ Reachable(f))

\* C2: the array written to the manifest is sorted ascending by code point
\* comparison of the normalised paths, whatever the order of the visit.
SortOrder ==
    \A p \in Proc : closed[p] # <<>> => IsSorted(Written(p))

\* t.mid is met first, in the root, and s/B.MIDI later: the manifest has
\* them in the other order
SortOrderWitness ==
    /\ pc[1] = "done"
    /\ Len(visited[1]) > 1 /\ visited[1][1] = RootDir
    /\ Written(1) = <<PathSB, PathT>>

\* C3: with a root that is missing, not a directory or unreadable, the run
\* fails with a non-zero exit, leaves the output file as it was and prints
\* no summary.
MissingRootFails ==
    (rootKind # "dir" \/ RootDir \in denied) =>
        /\ outFile = outFile0
        /\ \A p \in Proc :
              /\ stdout[p] = <<>>
              /\ pc[p] \in Terminal => ExitCode(p) # 0

\* C4: once a directory could not be listed the run aborts: it never opens
\* or writes the manifest and never prints the summary.
NoPartialManifest ==
    \A p \in Proc : walkErr[p] =>
        /\ pc[p] \in {"walk", "failed"}
        /\ closed[p] = <<>>
        /\ stdout[p] = <<>>

\* C5: the count printed equals the number of elements of the array the run
\* wrote.
CountAccuracy ==
    \A p \in Proc : stdout[p] # <<>> =>
        /\ closed[p] # <<>>
        /\ stdout[p] = <<Len(Written(p))>>

CountAccuracyWitness ==
    \E p \in Proc : stdout[p] = <<2>> /\ Len(Written(p)) = 2

\* C6: the file a successful run leaves is a function of the tree alone:
\* two runs against the same tree leave the same bytes, whatever the listing
\* order and whatever the file held before.
Determinism ==
    /\ \A p \in Proc : closed[p] # <<>> => closed[p][1] = ManifestOf
    /\ (pc[1] = "done" /\ pc[2] = "done") =>
           closed[1] = closed[2] /\ outFile.data = closed[1][1]

\* both runs are over, the file held an older and longer manifest before
DeterminismWitness ==
    /\ pc[1] = "done" /\ pc[2] = "done"
    /\ outFile0.exists
    /\ Len(outFile.data) < Len(outFile0.data)
    /\ Cardinality(files) > 0

\* C7: every entry is the path of a matched file relative to the root with
\* the host separator replaced by "/"; on a backslash host no entry holds a
\* backslash.
PathNormalization ==
    \A p \in Proc : closed[p] # <<>> =>
        \A e \in Range(Written(p)) :
            /\ \E f \in files :
                  /\ Matches(f.name)
                  /\ e = Replace(JoinWith(sep, f.dir \o <<f.name>>), sep, Slash)
            /\ sep = Backslash => Backslash \notin Range(e)

PathNormalizationWitness ==
    /\ sep = Backslash
    /\ \E p \in Proc : pc[p] = "done" /\ PathSZG \in Range(Written(p))

\* C8: a run whose output cannot be opened or written ends with a non-zero
\* exit and without the summary; the summary is printed only after the whole
\* manifest is in the file and the file is closed.
WriteFailureNotSuccess ==
    \A p \in Proc :
        /\ ioErr[p] => pc[p] = "failed" /\ ExitCode(p) # 0 /\ stdout[p] = <<>>
        /\ (fault # "none" /\ pc[p] \in Terminal) => ExitCode(p) # 0
        /\ stdout[p] # <<>> =>
              /\ closed[p] # <<>>
              /\ pending[p] = <<>>
              /\ closed[p][1] = Dumps(paths[p])

WriteFailureWitness ==
    \E p \in Proc : fault = "write" /\ ioErr[p] /\ pc[p] = "failed" /\ paths[p] # <<>>

\* the instance that closed the output file last
LastWriter == lastClosed[Len(lastClosed)]

\* C9: after two simultaneous instances have both finished, the output file
\* holds exactly the complete manifest of one of them, never a mixture.
LastWriterWins ==
    (pc[1] = "done" /\ pc[2] = "done") =>
        outFile.data \in {Dumps(paths[1]), Dumps(paths[2])}

\* C9 as amended: if the instances' open-write-close sections do not overlap,
\* the file holds exactly the complete manifest of the one that closed last.
LastWriterWinsSerial ==
    (pc[1] = "done" /\ pc[2] = "done" /\ ~overlap) =>
        outFile.data = Dumps(paths[LastWriter])

\* two instances that saw different trees, one after the other on the file,
\* the shorter manifest last
LastWriterWinsSerialWitness ==
    /\ pc[1] = "done" /\ pc[2] = "done" /\ ~overlap
    /\ launch = "concurrent"
    /\ Len(Dumps(paths[LastWriter])) < Len(Dumps(paths[lastClosed[1]]))

\* C10: each matching file beneath the root has exactly one entry, in its
\* own casing; entries are distinct; a directory is never an entry; every
\* directory is visited exactly once.
ExactlyOnce ==
    \A p \in Proc : pc[p] = "done" =>
        /\ \A f \in files : IsMidiName(f.name) => Count(Written(p), CanonOf(f)) = 1
        /\ \A e \in Range(Written(p)) : Count(Written(p), e) = 1
        /\ \A d \in AllDirs : JoinWith(Slash, d) \notin Range(Written(p))
        /\ \A d \in AllDirs : Count(visited[p], d) = 1

\* the same for the files and directories the walk can get to
ExactlyOnceListed ==
    \A p \in Proc : pc[p] = "done" =>
        /\ \A f \in files :
              (IsMidiName(f.name) /\ Reachable(f)) => Count(Written(p), CanonOf(f)) = 1
        /\ \A e \in Range(Written(p)) : Count(Written(p), e) = 1
        /\ \A d \in AllDirs : JoinWith(Slash, d) \notin Range(Written(p))
        /\ \A d \in AllDirs : Count(visited[p], d) <= 1

=============================================================================
